---- MODULE Spec2Model ----
(***************************************************************************)
(* Model of the sudoku solver of src/src/lib.rs: the candidate-set Cell,   *)
(* the three region passes, the propagation loop solve_all and the         *)
(* recursive guess-and-backtrack search Board::solve.                      *)
(*                                                                         *)
(* A Cell (a u16 bitset masked by Cell::MASK) is modelled as the set of    *)
(* the digits whose bit is set: bit k set <=> digit k+1 in the set.  `&`   *)
(* is intersection, `!` is the complement inside 1..DSIZE (the masking by  *)
(* MASK), count_ones is Cardinality.  A Board is a function from the cell  *)
(* index 0..DSIZE*DSIZE-1 to a Cell.                                       *)
(*                                                                         *)
(* The recursion of Board::solve is modelled by an explicit call stack:    *)
(* one frame per active call of solve, the last frame being the running    *)
(* call.  The source fixes SIZE = 3 (a 9x9 board); the model is written    *)
(* for any SIZE and is checked with the box size SIZE below.               *)
(***************************************************************************)
EXTENDS Integers, Naturals, Sequences, FiniteSets, TLC

\* Box edge.  lib.rs:7 sets 3; the model is checked on the 4x4 board.
SIZE == 2
\* lib.rs:8
DSIZE == SIZE * SIZE
\* Number of cells of a board, DSIZE * DSIZE in from_values / from_bits / solve.
NCELLS == DSIZE * DSIZE
\* Number of cells of the input that are chosen freely (see Inputs).
NumSlots == 4

Idx == 0 .. (NCELLS - 1)
Digits == 1 .. DSIZE

-----------------------------------------------------------------------------
(* Cell *)

\* Cell::none
none == {}

\* Cell::all
all == Digits

\* impl Not for Cell: Cell(MASK & !self.0)
Not(c) == Digits \ c

\* Cell::num_candidates
num_candidates(c) == Cardinality(c)

\* Cell::from_value, for value in 0..DSIZE (a larger value panics)
from_value(v) == IF v = 0 THEN all ELSE {v}

\* Cell::value: the digit of a cell with exactly one candidate (Some(i + 1)
\* for its only set bit i); 0 stands for None.
value(c) ==
    IF num_candidates(c) = 1 THEN CHOOSE d \in Digits : d \in c ELSE 0

\* update_candidates without the duplicate test (the early `return Err(())`
\* left out).
update_candidates_unchecked(self, cell) ==
    IF num_candidates(cell) = 1
    THEN [ok |-> TRUE, cell |-> self \cap Not(cell)]
    ELSE [ok |-> TRUE, cell |-> self]

\* Cell::update_candidates: self is the mask of the digits still free in the
\* region, cell a cell of the region.  Err when cell is determined and its
\* digit is no longer in self.
update_candidates(self, cell) ==
    IF num_candidates(cell) = 1
    THEN IF (Not(self) \cap cell) # none
         THEN [ok |-> FALSE, cell |-> self]
         ELSE [ok |-> TRUE, cell |-> self \cap Not(cell)]
    ELSE [ok |-> TRUE, cell |-> self]

\* update_cell returning Ok(true) for every undetermined cell, in place of
\* Ok(prev != *self).
update_cell_always_changed(self, candidates) ==
    IF num_candidates(self) # 1
    THEN LET new == self \cap candidates
         IN  IF new = none
             THEN [ok |-> FALSE, cell |-> new, changed |-> FALSE]
             ELSE [ok |-> TRUE, cell |-> new, changed |-> TRUE]
    ELSE [ok |-> TRUE, cell |-> self, changed |-> FALSE]

\* update_cell without the test `self.num_candidates() != 1`: a determined
\* cell is intersected like any other.
update_cell_unguarded(self, candidates) ==
    LET new == self \cap candidates
    IN  IF new = none
        THEN [ok |-> FALSE, cell |-> new, changed |-> FALSE]
        ELSE [ok |-> TRUE, cell |-> new, changed |-> (self # new)]

\* update_cell without the emptiness test (`return Err(())` left out): an
\* emptied cell is stored and reported as a change.
update_cell_unreported(self, candidates) ==
    IF num_candidates(self) # 1
    THEN LET new == self \cap candidates
         IN  [ok |-> TRUE, cell |-> new, changed |-> (self # new)]
    ELSE [ok |-> TRUE, cell |-> self, changed |-> FALSE]

\* Cell::update_cell: the intersection is stored before the emptiness test.
update_cell(self, candidates) ==
    IF num_candidates(self) # 1
    THEN LET new == self \cap candidates
         IN  IF new = none
             THEN [ok |-> FALSE, cell |-> new, changed |-> FALSE]
             ELSE [ok |-> TRUE, cell |-> new, changed |-> (self # new)]
    ELSE [ok |-> TRUE, cell |-> self, changed |-> FALSE]

\* Guesses::next with `self.1 += 1` run before the test of the bit: bit 0, and
\* the bit right after each guess, is never looked at.
GuessesNextPreIncrement(cell, pos) ==
    LET rest == {d \in cell : d - 1 > pos}
    IN  IF rest = {} THEN 0 ELSE CHOOSE d \in rest : \A e \in rest : d <= e

\* Guesses::next on Guesses(cell, pos): the first bit at or after pos that is
\* set, as digit (bit + 1); 0 when the iterator is exhausted.
GuessesNext(cell, pos) ==
    LET rest == {d \in cell : d - 1 >= pos}
    IN  IF rest = {} THEN 0 ELSE CHOOSE d \in rest : \A e \in rest : d <= e

-----------------------------------------------------------------------------
(* Regions, in the order the passes visit their cells *)

\* solve_rows: chunks_mut(DSIZE), row r, k-th cell
RowCells(r) == [k \in 1 .. DSIZE |-> r * DSIZE + (k - 1)]

\* solve_columns indexing x * DSIZE + y in place of y * DSIZE + x.
ColumnCellsTransposed(x) == [k \in 1 .. DSIZE |-> x * DSIZE + (k - 1)]

\* solve_columns: column x, y = 0..DSIZE-1
ColumnCells(x) == [k \in 1 .. DSIZE |-> (k - 1) * DSIZE + x]

\* solve_squares with the box offset sx in place of sx * SIZE.
SquareCellsNarrow(s) ==
    [k \in 1 .. DSIZE |->
        ((s \div SIZE) * SIZE + ((k - 1) \div SIZE)) * DSIZE
            + (s % SIZE) + ((k - 1) % SIZE)]

\* solve_squares: box s = sy * SIZE + sx, cells in y-major order
SquareCells(s) ==
    [k \in 1 .. DSIZE |->
        ((s \div SIZE) * SIZE + ((k - 1) \div SIZE)) * DSIZE
            + (s % SIZE) * SIZE + ((k - 1) % SIZE)]

\* In the three folds below an intermediate result is bound by letting a
\* variable range over the one-element set that holds it: the result is then
\* computed once, however often the rest of the fold refers to it.

\* First loop over a region: fold update_candidates from Cell::all.
RECURSIVE RegionCandidates(_, _, _, _)
RegionCandidates(board, reg, k, acc) ==
    IF k > DSIZE THEN [ok |-> TRUE, cell |-> acc]
    ELSE CHOOSE res \in
            {IF u.ok THEN RegionCandidates(board, reg, k + 1, u.cell) ELSE u :
                u \in {update_candidates(acc, board[reg[k]])}} : TRUE

\* Second loop over a region: update_cell on each cell in order; a cell that
\* becomes empty is stored and ends the pass.
RECURSIVE RegionUpdate(_, _, _, _, _)
RegionUpdate(board, reg, k, candidates, changed) ==
    IF k > DSIZE THEN [ok |-> TRUE, board |-> board, changed |-> changed]
    ELSE CHOOSE res \in
            {IF u.ok
             THEN RegionUpdate([board EXCEPT ![reg[k]] = u.cell], reg, k + 1,
                               candidates, changed \/ u.changed)
             ELSE [ok |-> FALSE, board |-> [board EXCEPT ![reg[k]] = u.cell],
                   changed |-> changed] :
                u \in {update_cell(board[reg[k]], candidates)}} : TRUE

\* The cells of region r of a pass, in the order the pass visits them.
RegionCells(pass, r) ==
    CASE pass = "rows" -> RowCells(r)
      [] pass = "columns" -> ColumnCells(r)
      [] pass = "squares" -> SquareCells(r)

\* One region of a pass: the candidates of the region, then the update of
\* its cells; either loop may end the pass with Err (`?`).
Region(board, reg, changed) ==
    CHOOSE res \in
        {IF c.ok
         THEN RegionUpdate(board, reg, 1, c.cell, changed)
         ELSE [ok |-> FALSE, board |-> board, changed |-> changed] :
            c \in {RegionCandidates(board, reg, 1, all)}} : TRUE

\* One pass: the regions 0..DSIZE-1 in order, stopping at the first Err.
RECURSIVE Pass(_, _, _, _)
Pass(board, pass, r, changed) ==
    IF r >= DSIZE THEN [ok |-> TRUE, board |-> board, changed |-> changed]
    ELSE CHOOSE res \in
            {IF u.ok THEN Pass(u.board, pass, r + 1, u.changed) ELSE u :
                u \in {Region(board, RegionCells(pass, r), changed)}} : TRUE

\* Board::solve_rows
solve_rows(board) == Pass(board, "rows", 0, FALSE)

\* Board::solve_columns
solve_columns(board) == Pass(board, "columns", 0, FALSE)

\* Board::solve_squares
solve_squares(board) == Pass(board, "squares", 0, FALSE)

\* solved testing for `!= 0` in place of `== 1`.
solved_nonempty(board) == \A i \in Idx : num_candidates(board[i]) # 0

\* Board::solved
solved(board) == \A i \in Idx : num_candidates(board[i]) = 1

-----------------------------------------------------------------------------
(* Input boards *)

\* Board::from_values on 81 zeros (test_board_empty): every cell Cell::all.
Blank == [i \in Idx |-> from_value(0)]

\* Board::from_values on a completed grid: row r, column c holds the digit
\* ((r % SIZE) * SIZE + r / SIZE + c) % DSIZE + 1.
BaseGrid ==
    [i \in Idx |->
        from_value(((((i \div DSIZE) % SIZE) * SIZE + ((i \div DSIZE) \div SIZE)
                        + (i % DSIZE)) % DSIZE) + 1)]

\* Board::from_bits on two-candidate cells: the digit of BaseGrid and its
\* predecessor (DSIZE before 1).
Wide ==
    [i \in Idx |->
        BaseGrid[i] \cup {((d + DSIZE - 2) % DSIZE) + 1 : d \in BaseGrid[i]}]

\* The cells that Inputs overwrites, in the order they are taken.
Slots == <<DSIZE, 2 * DSIZE + 1, 3 * DSIZE + 1, NCELLS - 1, 2>>

\* What an overwritten cell holds: Cell::from_value(0..DSIZE), Cell::none()
\* and the two-candidate cell from_bits(0b11).
Alphabet == {from_value(v) : v \in 0 .. DSIZE} \cup {none, {1, 2}}

\* The boards solve is started on: one of the three boards above with its
\* first NumSlots slots overwritten by any cells of Alphabet.
Inputs ==
    {[i \in Idx |->
        IF \E k \in 1 .. NumSlots : Slots[k] = i
        THEN f[CHOOSE k \in 1 .. NumSlots : Slots[k] = i]
        ELSE base[i]] :
        base \in {Blank, BaseGrid, Wide}, f \in [1 .. NumSlots -> Alphabet]}

-----------------------------------------------------------------------------
(* Board::solve as a state machine *)

VARIABLES
    input,      \* the board the outermost solve was called on
    stack,      \* the active calls of solve, outermost first
    returned,   \* "none" while a call runs; "Ok" / "Err": a call has just
                \* returned that value; "panic": unreachable!() was hit
    retboard,   \* the board inside the last Ok / Err returned
    retentry,   \* the board the call that returned it had been called on
    hist        \* how many branches were cloned (guesses) and how many of
                \* them came back Err (failures) so far; for the properties

vars == <<input, stack, returned, retboard, retentry, hist>>

NoBoard == [i \in Idx |-> none]

\* A call of solve on board b, about to run solve_all.
\*   board   self
\*   pc      where the call stands
\*   changed the `|` of the passes of the current round so far
\*   last    the bool the last pass of this call returned in its Ok
\*   i       the index of `for i in 0..(DSIZE * DSIZE)`
\*   giter, gpos   Guesses(cell, pos) of `for guess in self.0[i].guesses()`
\*   guess   the digit of the current guess (0: none yet)
\* and, recorded for the properties only:
\*   entry   self when the call started
\*   fix     self when solve_all returned Ok
\*   before  self when the current branch was cloned
\*   gcells  the indices this call has cloned a branch for
NewCall(b) ==
    [board |-> b, pc |-> "solve_rows", changed |-> FALSE, last |-> FALSE,
     i |-> 0,
     giter |-> none, gpos |-> 0, guess |-> 0,
     entry |-> b, fix |-> NoBoard, before |-> NoBoard, gcells |-> {}]

top == stack[Len(stack)]

Running == stack # <<>> /\ returned = "none"

\* `return Ok(b)` / `return Err(b)` of the running call.
Return(status, b) ==
    /\ stack' = SubSeq(stack, 1, Len(stack) - 1)
    /\ returned' = status
    /\ retboard' = b
    /\ retentry' = top.entry
    /\ UNCHANGED <<input, hist>>

\* The running call moves on to frame f.
Step(f) ==
    /\ stack' = [stack EXCEPT ![Len(stack)] = f]
    /\ UNCHANGED <<input, returned, retboard, retentry, hist>>

Init ==
    /\ input \in Inputs
    /\ stack = <<NewCall(input)>>
    /\ returned = "none"
    /\ retboard = NoBoard
    /\ retentry = NoBoard
    /\ hist = [guesses |-> 0, failures |-> 0]

\* solve_all going on to the next pass when solve_rows returned Err (the `?`
\* left out).
SolveRowsIgnoringErr ==
    /\ Running /\ top.pc = "solve_rows"
    /\ LET p == solve_rows(top.board)
       IN  Step([top EXCEPT !.board = p.board, !.changed = p.changed,
                            !.last = p.changed, !.pc = "solve_columns"])

\* solve_all, first operand of the round: self.solve_rows()?
SolveRows ==
    /\ Running /\ top.pc = "solve_rows"
    /\ LET p == solve_rows(top.board)
       IN  IF p.ok
           THEN Step([top EXCEPT !.board = p.board, !.changed = p.changed,
                                 !.last = p.changed, !.pc = "solve_columns"])
           ELSE Return("Err", p.board)

\* solve_all, second operand: | self.solve_columns()?
SolveColumns ==
    /\ Running /\ top.pc = "solve_columns"
    /\ LET p == solve_columns(top.board)
       IN  IF p.ok
           THEN Step([top EXCEPT !.board = p.board,
                                 !.changed = top.changed \/ p.changed,
                                 !.last = p.changed, !.pc = "solve_squares"])
           ELSE Return("Err", p.board)

\* solve_all, third operand and the loop test: | self.solve_squares()? {}
SolveSquares ==
    /\ Running /\ top.pc = "solve_squares"
    /\ LET p == solve_squares(top.board)
       IN  IF p.ok
           THEN IF top.changed \/ p.changed
                THEN Step([top EXCEPT !.board = p.board, !.changed = FALSE,
                                      !.last = p.changed, !.pc = "solve_rows"])
                ELSE Step([top EXCEPT !.board = p.board, !.changed = FALSE,
                                      !.last = p.changed, !.pc = "solved",
                                      !.fix = p.board])
           ELSE Return("Err", p.board)

\* if self.solved() { return Ok(self); }
Solved ==
    /\ Running /\ top.pc = "solved"
    /\ IF solved(top.board)
       THEN Return("Ok", top.board)
       ELSE Step([top EXCEPT !.pc = "loop", !.i = 0])

\* One turn of `for i in 0..(DSIZE * DSIZE)`: match on num_candidates.
Loop ==
    /\ Running /\ top.pc = "loop" /\ top.i < NCELLS
    /\ LET n == num_candidates(top.board[top.i])
       IN  IF n = 0
           THEN /\ returned' = "panic"
                /\ UNCHANGED <<input, stack, retboard, retentry, hist>>
           ELSE IF n = 1
           THEN Step([top EXCEPT !.i = top.i + 1])
           ELSE Step([top EXCEPT !.pc = "guesses", !.giter = top.board[top.i],
                                 !.gpos = 0, !.guess = 0])

\* The for loop ran out: Err(self)
LoopEnd ==
    /\ Running /\ top.pc = "loop" /\ top.i = NCELLS
    /\ Return("Err", top.board)

\* Guesses::next yields a guess: clone self, set cell i, call solve on it.
Guess ==
    /\ Running /\ top.pc = "guesses"
    /\ LET g == GuessesNext(top.giter, top.gpos)
       IN  /\ g # 0
           /\ stack' =
                [stack EXCEPT ![Len(stack)] =
                    [top EXCEPT !.pc = "call", !.guess = g, !.gpos = g,
                                !.before = top.board,
                                !.gcells = top.gcells \cup {top.i}]]
                \o <<NewCall([top.board EXCEPT ![top.i] = {g}])>>
           /\ hist' = [hist EXCEPT !.guesses = @ + 1]
           /\ UNCHANGED <<input, returned, retboard, retentry>>

\* Guesses::next yields None: next i.
GuessesEnd ==
    /\ Running /\ top.pc = "guesses"
    /\ GuessesNext(top.giter, top.gpos) = 0
    /\ Step([top EXCEPT !.pc = "loop", !.i = top.i + 1, !.gpos = DSIZE])

\* Ok(board) => return Ok(board)
BranchOk ==
    /\ stack # <<>> /\ returned = "Ok" /\ top.pc = "call"
    /\ Return("Ok", retboard)

\* The branch working on the parent's board instead of a clone: after the
\* failure the parent holds what the branch left, minus the guess.
BranchErrKeepingClone ==
    /\ stack # <<>> /\ returned = "Err" /\ top.pc = "call"
    /\ stack' = [stack EXCEPT ![Len(stack)] =
                    [top EXCEPT !.board =
                                    [retboard EXCEPT ![top.i] =
                                        top.board[top.i] \cap Not({top.guess})],
                                !.pc = "guesses"]]
    /\ returned' = "none"
    /\ hist' = [hist EXCEPT !.failures = @ + 1]
    /\ UNCHANGED <<input, retboard, retentry>>

\* The failure handled with `=` in place of `&=`: self.0[i] = !guess.
BranchErrAssigning ==
    /\ stack # <<>> /\ returned = "Err" /\ top.pc = "call"
    /\ stack' = [stack EXCEPT ![Len(stack)] =
                    [top EXCEPT !.board[top.i] = Not({top.guess}),
                                !.pc = "guesses"]]
    /\ returned' = "none"
    /\ hist' = [hist EXCEPT !.failures = @ + 1]
    /\ UNCHANGED <<input, retboard, retentry>>

\* Err(_) => self.0[i] &= !guess
BranchErr ==
    /\ stack # <<>> /\ returned = "Err" /\ top.pc = "call"
    /\ stack' = [stack EXCEPT ![Len(stack)] =
                    [top EXCEPT !.board[top.i] = @ \cap Not({top.guess}),
                                !.pc = "guesses"]]
    /\ returned' = "none"
    /\ hist' = [hist EXCEPT !.failures = @ + 1]
    /\ UNCHANGED <<input, retboard, retentry>>

Next ==
    \/ SolveRows
    \/ SolveColumns
    \/ SolveSquares
    \/ Solved
    \/ Loop
    \/ LoopEnd
    \/ Guess
    \/ GuessesEnd
    \/ BranchOk
    \/ BranchErr

Spec == Init /\ [][Next]_vars

\* solve runs to completion: it is sequential code with no suspension, so a
\* step that can be taken is taken.
FairSpec == Spec /\ WF_vars(Next)

\* The outermost call has returned.
Done == stack = <<>>

-----------------------------------------------------------------------------
(* Reference notions, stated on cell indices and independent of the passes *)

RowOf(i) == i \div DSIZE
ColumnOf(i) == i % DSIZE
SquareOf(i) == (RowOf(i) \div SIZE) * SIZE + (ColumnOf(i) \div SIZE)

\* The regions as sets of cell indices: rows, columns, boxes.
Units ==
    {{i \in Idx : RowOf(i) = r} : r \in 0 .. (DSIZE - 1)}
    \cup {{i \in Idx : ColumnOf(i) = c} : c \in 0 .. (DSIZE - 1)}
    \cup {{i \in Idx : SquareOf(i) = s} : s \in 0 .. (DSIZE - 1)}

\* Every cell of b holds exactly one candidate.
Determined(b) == \A i \in Idx : Cardinality(b[i]) = 1

\* b is a completed grid: every cell holds one digit and every region holds
\* each digit exactly once.
IsGrid(b) ==
    /\ \A i \in Idx : Cardinality(b[i]) = 1
    /\ \A u \in Units : \A d \in Digits :
            Cardinality({i \in u : b[i] = {d}}) = 1

\* Two determined cells of one region carry the same digit.
Conflict(b) ==
    \E u \in Units : \E i, j \in u :
        i # j /\ Cardinality(b[i]) = 1 /\ b[i] = b[j]

\* The permutations of the digits, as rows of a grid.
RowPerms ==
    {p \in [0 .. (DSIZE - 1) -> Digits] :
        \A x, y \in 0 .. (DSIZE - 1) : x # y => p[x] # p[y]}

\* The ways to fill the rows 0..k-1 (sequences of k rows) so that no digit
\* repeats in a column or in a box, built a row at a time.
RECURSIVE PartialGrids(_)
PartialGrids(k) ==
    IF k = 0 THEN {<<>>}
    ELSE UNION {{Append(g, p) : p \in
                    {q \in RowPerms :
                        \A r \in 1 .. (k - 1) : \A x, y \in 0 .. (DSIZE - 1) :
                            (x = y \/ ((r - 1) \div SIZE = (k - 1) \div SIZE
                                        /\ x \div SIZE = y \div SIZE))
                            => g[r][x] # q[y]}} :
                g \in PartialGrids(k - 1)}

\* Every completed grid, as a board of determined cells.
AllGrids ==
    {[i \in Idx |-> {g[RowOf(i) + 1][ColumnOf(i)]}] : g \in PartialGrids(DSIZE)}

\* The completed grids that take each cell's digit from b's candidates.
Solutions(b) == {g \in AllGrids : \A i \in Idx : g[i] \subseteq b[i]}

-----------------------------------------------------------------------------
(* Claims *)

\* C1 (soundness): whenever a call of solve returns Ok(b), every cell of b
\* has exactly one candidate and every row, column and box of b holds each
\* digit exactly once.
Soundness == returned = "Ok" => IsGrid(retboard)

\* C1 witness: the empty board (test_board_empty) has been solved, through
\* guesses, to a completed grid.
SoundnessWitness ==
    Done /\ returned = "Ok" /\ input = Blank /\ IsGrid(retboard)

\* C2 (completeness): a call of solve returns Ok exactly when the board it
\* was called on has a completed grid within its candidates, Err only when
\* there is none, and a unique grid is the board returned.
Completeness ==
    returned \in {"Ok", "Err"} =>
        /\ (returned = "Ok") <=> (Solutions(retentry) # {})
        /\ \A g \in Solutions(retentry) :
                Solutions(retentry) = {g} => retboard = g

\* C2 witness: an input with exactly one grid, found only after a guess
\* failed, has been returned as that grid.
CompletenessWitness ==
    /\ Done /\ returned = "Ok"
    /\ Cardinality(Solutions(input)) = 1
    /\ retboard \in Solutions(input)
    /\ hist.failures > 0

\* C3 (unsatisfiability detection): a call of solve on a board with two
\* determined cells of one region carrying the same digit returns Err, never
\* Ok.
ConflictIsErr ==
    (returned \in {"Ok", "Err"} /\ Conflict(retentry)) => returned = "Err"

\* C3 witness: an input with such a pair and with undetermined cells has been
\* answered Err.
ConflictIsErrWitness ==
    Done /\ returned = "Err" /\ Conflict(input) /\ ~Determined(input)

\* C4 (termination): every call of solve, on every input, the empty board
\* included, eventually returns: the outermost call ends with Ok or Err.
Termination == <>(Done /\ returned \in {"Ok", "Err"})

\* C4 witness: the outermost call on the empty board has returned, after
\* branches that failed.
TerminationWitness ==
    Done /\ input = Blank /\ returned \in {"Ok", "Err"} /\ hist.guesses > 0

\* C5 (round trip): a call of solve on a board whose cells are all
\* determined returns that very board, as Ok when it is a completed grid and
\* as Err when some region repeats a digit.
RoundTrip ==
    (returned \in {"Ok", "Err"} /\ Determined(retentry)) =>
        /\ retboard = retentry
        /\ (returned = "Ok") <=> IsGrid(retentry)
        /\ (returned = "Err") <=> Conflict(retentry)

\* C5 witness: the completed grid given as input came back as Ok(input).
RoundTripWitness ==
    Done /\ Determined(input) /\ returned = "Ok" /\ retboard = input

\* C6 (candidates never grow): in the board a call of solve returns, Ok or
\* Err, every cell's candidates are a subset of that cell's candidates in the
\* board the call was made on; a determined cell of the input is the same in
\* a solved board.
NeverGrows ==
    returned \in {"Ok", "Err"} =>
        /\ \A i \in Idx : retboard[i] \subseteq retentry[i]
        /\ returned = "Ok" =>
                \A i \in Idx :
                    Cardinality(retentry[i]) = 1 => retboard[i] = retentry[i]

\* C6 witness: a solved board that kept the given digits of its input and
\* shrank the other cells, reached through guesses.
NeverGrowsWitness ==
    /\ Done /\ returned = "Ok" /\ hist.guesses > 0
    /\ \E i \in Idx : Cardinality(input[i]) = 1 /\ retboard[i] = input[i]
    /\ \E i \in Idx : retboard[i] # input[i] /\ retboard[i] \subseteq input[i]

\* The lowest index of a cell of b with more than one candidate.
FirstOpen(b) ==
    CHOOSE i \in Idx :
        /\ Cardinality(b[i]) > 1
        /\ \A j \in Idx : Cardinality(b[j]) > 1 => i <= j

\* b is what solve_all leaves when it returns Ok: no pass fails on b and no
\* pass changes it.
Fixpoint(b) ==
    /\ solve_rows(b) = [ok |-> TRUE, board |-> b, changed |-> FALSE]
    /\ solve_columns(b) = [ok |-> TRUE, board |-> b, changed |-> FALSE]
    /\ solve_squares(b) = [ok |-> TRUE, board |-> b, changed |-> FALSE]

\* The Stalled state: propagation succeeded and left a cell with two or more
\* candidates.
Stalled(b) == Fixpoint(b) /\ \E i \in Idx : Cardinality(b[i]) >= 2

\* C7 (one guess cell per call), as claimed: a call of solve clones branches
\* for one cell only, the lowest-index cell that had more than one candidate
\* when propagation stalled; once its candidates have all failed the call
\* returns Err without a branch for any other cell.
OneGuessCell ==
    \A k \in 1 .. Len(stack) :
        \A c \in stack[k].gcells : c = FirstOpen(stack[k].fix)

\* C8 (branches only from Stalled): a call of solve that has cloned a branch,
\* or stands in its guessing loop, had its propagation succeed and leave some
\* cell with two or more candidates; so a call whose propagation ended in
\* Contradiction, or with every cell determined, returns without a branch.
BranchOnlyWhenStalled ==
    \A k \in 1 .. Len(stack) :
        (stack[k].gcells # {} \/ stack[k].pc \in {"guesses", "call"})
            => Stalled(stack[k].fix)

\* C8 witness: a branch is running under a call whose propagation stalled.
BranchOnlyWhenStalledWitness ==
    /\ Len(stack) >= 2
    /\ stack[1].pc = "call" /\ stack[1].gcells # {}
    /\ Stalled(stack[1].fix)

\* C9 (a failed branch leaves one exclusion): while a branch runs, and when it
\* has returned, the parent's board is the board the branch was cloned from;
\* after the failure is handled the parent's board is that board with the
\* guessed digit removed from cell i, every other cell unchanged.
FailedBranchFrame ==
    \A k \in 1 .. Len(stack) :
        LET f == stack[k]
        IN  /\ f.pc = "call" => f.board = f.before
            /\ (f.pc = "guesses" /\ f.guess # 0) =>
                    /\ f.guess \in f.before[f.i]
                    /\ f.board = [f.before EXCEPT ![f.i] = @ \ {f.guess}]

\* C9 witness: a failure has been handled whose branch had reduced cells
\* other than the guessed one on its clone; the parent shows none of it.
FailedBranchFrameWitness ==
    /\ Running /\ top.pc = "guesses" /\ top.guess # 0
    /\ top.board[top.i] = top.before[top.i] \ {top.guess}
    /\ \E j \in Idx \ {top.i} :
            retboard[j] # top.before[j] /\ top.board[j] = top.before[j]

\* i and j lie in one region of the pass.
SameRegion(pass, i, j) ==
    CASE pass = "rows" -> RowOf(i) = RowOf(j)
      [] pass = "columns" -> ColumnOf(i) = ColumnOf(j)
      [] pass = "squares" -> SquareOf(i) = SquareOf(j)

\* What a pass that returns Ok makes of board b: a determined cell stays, any
\* other cell loses the digits of the determined cells of its region.
Reference(pass, b) ==
    [i \in Idx |->
        IF Cardinality(b[i]) = 1 THEN b[i]
        ELSE b[i] \ UNION {b[j] : j \in
                {j \in Idx : SameRegion(pass, i, j) /\ Cardinality(b[j]) = 1}}]

\* The running call's pass has returned Ok in this step.
PassOk(pass) ==
    /\ Running /\ top.pc = pass
    /\ Len(stack') = Len(stack)
    /\ stack'[Len(stack)].pc # pass

\* The step obeys the reference of the pass: the new board is Reference of
\* the old, the bool returned says whether some cell shrank, and a pass on
\* the board left by a pass that reported no change reports no change.
PassAsReference(pass, kind, run) ==
    PassOk(pass) =>
        LET old == top.board
            new == stack'[Len(stack)].board
            ret == stack'[Len(stack)].last
        IN  /\ new = Reference(kind, old)
            /\ ret <=> (\E i \in Idx : new[i] # old[i] /\ new[i] \subseteq old[i])
            /\ ~ret => run = [ok |-> TRUE, board |-> new, changed |-> FALSE]

\* C10 (region pass against its reference): when solve_rows, solve_columns
\* or solve_squares returns Ok(changed), the determined cells are unchanged,
\* every other cell is its previous candidates minus the digits of the cells
\* of its region determined before the pass, changed tells whether a cell
\* shrank, and a pass after a pass that reported no change reports no change.
RegionPassReference ==
    [][/\ PassAsReference("solve_rows", "rows",
                          solve_rows(stack'[Len(stack)].board))
       /\ PassAsReference("solve_columns", "columns",
                          solve_columns(stack'[Len(stack)].board))
       /\ PassAsReference("solve_squares", "squares",
                          solve_squares(stack'[Len(stack)].board))]_vars

\* C10 witness: solve_columns has just returned Ok(true) in a call whose
\* solve_rows had returned Ok(false).
RegionPassReferenceWitness ==
    Running /\ top.pc = "solve_squares" /\ top.last /\ top.changed
        /\ top.board # top.entry /\ Len(stack) >= 2

\* Board b has a cell with no candidate.
HasEmptyCell(b) == \E i \in Idx : b[i] = none

\* C11 (no empty cell is ever stored), as claimed: when the input board has no
\* empty cell, no board held by a running call of solve, parent or clone, and
\* no board returned in Ok or Err has a cell whose candidate set is empty.
NoEmptyCellStored ==
    ~HasEmptyCell(input) =>
        /\ \A k \in 1 .. Len(stack) : ~HasEmptyCell(stack[k].board)
        /\ returned \in {"Ok", "Err"} => ~HasEmptyCell(retboard)

\* Grid g comes before grid h, or is h, when the digits are read in row-major
\* order (cell 0 first).
LexLeq(g, h) ==
    \/ g = h
    \/ \E i \in Idx :
            /\ value(g[i]) < value(h[i])
            /\ \A j \in 0 .. (i - 1) : value(g[j]) = value(h[j])

\* The lexicographically smallest grid of the non-empty set S.
LexMin(S) == CHOOSE g \in S : \A h \in S : LexLeq(g, h)

\* C12 (search order fixes the result): a call of solve on a board with
\* several completed grids within its candidates returns Ok with the grid
\* that is lexicographically smallest in row-major order.
LexSmallest ==
    (returned \in {"Ok", "Err"} /\ Cardinality(Solutions(retentry)) >= 2) =>
        /\ returned = "Ok"
        /\ retboard = LexMin(Solutions(retentry))

\* C12 witness: the outermost call had several grids to choose from, a guess
\* on a lower digit failed before the search succeeded, and the grid returned
\* is the smallest of them and not the only one.
LexSmallestWitness ==
    /\ Done /\ returned = "Ok" /\ hist.failures > 0
    /\ Cardinality(Solutions(input)) >= 2
    /\ retboard = LexMin(Solutions(input))
    /\ \E h \in Solutions(input) : h # retboard /\ LexLeq(retboard, h)

\* C13 (the unreachable!() arm is never taken): in every call of solve, at
\* every depth and for every input, the cell the guessing loop inspects at
\* index i has at least one candidate when it is inspected, so the arm
\* `0 => unreachable!()` is never run.
NeverUnreachable ==
    /\ returned # "panic"
    /\ \A k \in 1 .. Len(stack) :
            (stack[k].pc = "loop" /\ stack[k].i < NCELLS)
                => stack[k].board[stack[k].i] # none

\* C13 witness: a nested call's loop is about to inspect a cell, which has
\* candidates, after it reduced an earlier cell of its board to the empty set.
NeverUnreachableWitness ==
    /\ Running /\ Len(stack) >= 2
    /\ top.pc = "loop" /\ top.i < NCELLS
    /\ top.board[top.i] # none
    /\ \E j \in 0 .. (top.i - 1) : top.board[j] = none /\ top.fix[j] # none

====
